---- MODULE Spec2Model ----
(***************************************************************************)
(* Model of the numeric utilities of ChildGAN (misc.py): the bipolar       *)
(* one-hot label encoder one_hot and the total-variation regularizer       *)
(* TV_LOSS.  Tensors live in a heap of objects that calls reference by     *)
(* address, as Python passes them; every call runs line by line.           *)
(* Arithmetic is exact (integers and normalised fractions): float32        *)
(* rounding is not modelled.                                               *)
(***************************************************************************)
EXTENDS Integers, Sequences, FiniteSets, TLC

VARIABLES
    heap,      \* address -> object: the tensors and label lists alive
    pc,        \* thread -> the line its call is at
    frame,     \* thread -> arguments and locals of its call
    outcome,   \* thread -> how its last call ended
    memo,      \* what the caller remembers of an earlier call
    machine,   \* the accelerator backends this machine has
    app,       \* a run of the command line tool or of the web interface
    org        \* a run of the dataset organizer on one old class

vars == <<heap, pc, frame, outcome, memo, machine, app, org>>

\* ------------------------------------------------------------------ bounds
\* largest class count n_l tried
MaxNl == 2
\* largest batchSize and largest label sequence length tried
MaxBatch == 2
\* number of caller threads of the model
NumThreads == 2
\* largest number of pixels (batch x channel x height x width) of an image batch
MaxPixels == 9
\* largest height, width and img_size tried (the smallest is 2)
MaxSize == 4
\* pixel levels are 0..MaxPixel
MaxPixel == 1
\* global shifts k tried are -MaxShift..MaxShift
MaxShift == 2
\* global scale factors a tried are -MaxScale..MaxScale
MaxScale == 3
\* largest label sequence length tried when a call is repeated
PureLen == 1
\* largest epoch number of a checkpoint file tried
MaxEpoch == 2
\* largest number of files in the model directory tried
MaxFiles == 3
\* largest number of image files in an old class tried
MaxImages == 25
\* largest number of images whose copy fails
MaxBad == 1

Threads == 1..NumThreads
\* the caller of the sequential specifications
SeqThreads == {1}

\* ------------------------------------------------------------ Python values
\* A label is a plain Python int or a single-value integer wrapper (a 0-dim
\* tensor, a numpy integer) that exposes item().
Labels(n_l) == [boxed : BOOLEAN, val : (-(n_l + 1))..n_l]

LabelSeqs(len, n_l) == [1..len -> Labels(n_l)]

\* hasattr(j, 'item')
HasItem(j) == j.boxed

\* a slip: reads the wrapper's number of dimensions, j.dim(), which is 0
ItemAsDim(j) == 0

\* j.item(): the Python scalar held by the wrapper
Item(j) == j.val

\* int(j) of a plain Python int
PyInt(j) == j.val

\* (use_cuda, device) pairs; "None" is the default device=None
Placements == {<<FALSE, "None">>, <<FALSE, "mps">>, <<TRUE, "None">>, <<TRUE, "mps">>}

\* a machine has no accelerator, an NVIDIA one ("cuda") or an Apple one ("mps")
Machines == {{}, {"cuda"}, {"mps"}}

\* ------------------------------------------------------------------- heap
NoRef == 0

SetMin(S) == CHOOSE a \in S : \A b \in S : a <= b

\* a slip: the result is written in place, into the storage of the oldest
\* tensor alive (the argument), as x.sub_(...) or out=imgTensor would
FreshInPlace(h) == IF DOMAIN h = {} THEN 1 ELSE SetMin(DOMAIN h)

\* the address a new object gets: the lowest one not in use
Fresh(h) == SetMin((1..(Cardinality(DOMAIN h) + 1)) \ DOMAIN h)

\* h with object obj stored at address a
Store(h, a, obj) == [b \in DOMAIN h \cup {a} |-> IF b = a THEN obj ELSE h[b]]

\* -------------------------------------------------------------- one_hot
\* torch.ones(n): a flat tensor of n ones
Ones(n) == [k \in 1..n |-> 1]

\* unary minus, elementwise on a flat tensor
Neg(flat) == [k \in 1..Len(flat) |-> 0 - flat[k]]

\* flat.view(rows, cols): row-major reshape
View(flat, rows, cols) == [i \in 1..rows |-> [j \in 1..cols |-> flat[(i - 1) * cols + j]]]

SetMax(S) == CHOOSE a \in S : \A b \in S : a >= b

\* a slip: never fewer than one row, as .view(max(batchSize, 1), n_l) gives
NewOneHotOneRowAtLeast(batchSize, n_l) ==
    [shape |-> <<SetMax({batchSize, 1}), n_l>>,
     data |-> View(Neg(Ones(SetMax({batchSize, 1}) * n_l)), SetMax({batchSize, 1}), n_l)]

\* line 15: oneHot = - torch.ones(batchSize*n_l).view(batchSize,n_l)
NewOneHot(batchSize, n_l) ==
    [shape |-> <<batchSize, n_l>>,
     data |-> View(Neg(Ones(batchSize * n_l)), batchSize, n_l)]

\* line 18: j_int = j.item() if hasattr(j, 'item') else int(j)
JInt(j) == IF HasItem(j) THEN Item(j) ELSE PyInt(j)

\* a slip: the upper end of the range is accepted too
IndexOKInclusive(k, n) == (0 - n) <= k /\ k <= n

\* an index k into a dimension of size n is accepted iff -n <= k < n
IndexOK(k, n) == (0 - n) <= k /\ k < n

\* the 0-based position an accepted index denotes: negative ones count from the end
IndexPos(k, n) == IF k < 0 THEN k + n ELSE k

\* line 19 can be executed: both indices of oneHot[i, j_int] are accepted
CanAssign(shape, i, k) == IndexOK(i, shape[1]) /\ IndexOK(k, shape[2])

\* a slip: the label is taken as a 1-based column
AssignOneOneBased(data, shape, i, k) ==
    [data EXCEPT ![IndexPos(i, shape[1]) + 1][IndexPos(k, shape[2])] = 1]

\* line 19: oneHot[i, j_int] = 1, on the matrix data (i and k are 0-based)
AssignOne(data, shape, i, k) ==
    [data EXCEPT ![IndexPos(i, shape[1]) + 1][IndexPos(k, shape[2]) + 1] = 1]

\* lines 20-26: where the returned Variable is placed
ReturnDevice(use_cuda, device) ==
    IF use_cuda /\ device # "None" THEN device
    ELSE IF use_cuda THEN "cuda"
    ELSE "cpu"

\* -------------------------------------------------------------- fractions
\* Pixel values are integers; a mean is the exact fraction <<num, den>> in
\* lowest terms with den > 0.  Each operator binds its arguments with
\* "v \in {<<...>>}", which evaluates them once; its result is the single
\* element of the set.
Abs(n) == IF n < 0 THEN 0 - n ELSE n

RECURSIVE Gcd(_, _)
Gcd(a, b) ==
    CHOOSE g \in {IF v[2] = 0 THEN v[1] ELSE Gcd(v[2], v[1] % v[2]) : v \in {<<a, b>>}} : TRUE

Frac(num, den) ==
    CHOOSE f \in {<<v[1] \div Gcd(Abs(v[1]), v[2]), v[2] \div Gcd(Abs(v[1]), v[2])>> :
                  v \in {<<num, den>>}} : TRUE

FromInt(n) == <<n, 1>>

FAdd(p, q) ==
    CHOOSE f \in {Frac(v[1][1] * v[2][2] + v[2][1] * v[1][2], v[1][2] * v[2][2]) :
                  v \in {<<p, q>>}} : TRUE

FMulInt(p, n) == CHOOSE f \in {Frac(v[1][1] * v[2], v[1][2]) : v \in {<<p, n>>}} : TRUE

FDivInt(p, n) == CHOOSE f \in {Frac(v[1][1], v[1][2] * v[2]) : v \in {<<p, n>>}} : TRUE

RECURSIVE SumInts(_)
SumInts(s) ==
    CHOOSE n \in {IF v = <<>> THEN 0 ELSE Head(v) + SumInts(Tail(v)) : v \in {s}} : TRUE

RECURSIVE SumFracs(_)
SumFracs(s) ==
    CHOOSE f \in {IF v = <<>> THEN FromInt(0) ELSE FAdd(Head(v), SumFracs(Tail(v))) :
                  v \in {s}} : TRUE

\* ------------------------------------------------------------ tensor algebra
\* A tensor is [shape, data]; data is nested sequences, 1-based.
\* Python's slice stop n on a dimension of size len
SliceStop(n, len) ==
    IF n < 0 THEN SetMax({len + n, 0}) ELSE SetMin({n, len})

\* the sequence e(1), ..., e(n), with every element computed
MkSeq(n, e(_)) == <<>> \o [i \in 1..n |-> e(i)]

\* the 3-d tensor of shape s with element e(b, c, k) at position (b, c, k)
Build3(s, e(_, _, _)) ==
    [shape |-> s,
     data |-> MkSeq(s[1], LAMBDA b : MkSeq(s[2], LAMBDA c : MkSeq(s[3], LAMBDA k : e(b, c, k))))]

\* the 4-d tensor of shape s with element e(b, c, r, w) at position (b, c, r, w)
Build4(s, e(_, _, _, _)) ==
    [shape |-> s,
     data |-> MkSeq(s[1], LAMBDA b : MkSeq(s[2], LAMBDA c : MkSeq(s[3], LAMBDA r :
                MkSeq(s[4], LAMBDA w : e(b, c, r, w)))))]

\* Each operator below binds its argument with "T \in {A}", which evaluates
\* the argument once; the result is the single element of the set.
\* A[:, :, 1:, :]
Dim2From1(A) ==
    CHOOSE R \in
        { Build4(<<T.shape[1], T.shape[2], SetMax({T.shape[3] - 1, 0}), T.shape[4]>>,
                 LAMBDA b, c, r, w : T.data[b][c][r + 1][w]) : T \in {A} } : TRUE

\* A[:, :, :n, :]
Dim2To(A, n) ==
    CHOOSE R \in
        { Build4(<<T.shape[1], T.shape[2], SliceStop(n, T.shape[3]), T.shape[4]>>,
                 LAMBDA b, c, r, w : T.data[b][c][r][w]) : T \in {A} } : TRUE

\* A[:, :, :, 1:]
Dim3From1(A) ==
    CHOOSE R \in
        { Build4(<<T.shape[1], T.shape[2], T.shape[3], SetMax({T.shape[4] - 1, 0})>>,
                 LAMBDA b, c, r, w : T.data[b][c][r][w + 1]) : T \in {A} } : TRUE

\* A[:, :, :, :n]
Dim3To(A, n) ==
    CHOOSE R \in
        { Build4(<<T.shape[1], T.shape[2], T.shape[3], SliceStop(n, T.shape[4])>>,
                 LAMBDA b, c, r, w : T.data[b][c][r][w]) : T \in {A} } : TRUE

\* two shapes of equal rank broadcast iff in every dimension the sizes are
\* equal or one of them is 1
Broadcastable(s1, s2) ==
    \A k \in 1..Len(s1) : s1[k] = s2[k] \/ s1[k] = 1 \/ s2[k] = 1

BroadcastShape(s1, s2) == <<>> \o [k \in 1..Len(s1) |-> IF s1[k] = 1 THEN s2[k] ELSE s1[k]]

\* the position read in a dimension of size n for result position k
BIdx(n, k) == IF n = 1 THEN 1 ELSE k

\* the element of the 3-d tensor T that broadcasting puts at position (b, c, k)
At3(T, b, c, k) == T.data[BIdx(T.shape[1], b)][BIdx(T.shape[2], c)][BIdx(T.shape[3], k)]

\* the element of the 4-d tensor T that broadcasting puts at position (b, c, r, w)
At4(T, b, c, r, w) ==
    T.data[BIdx(T.shape[1], b)][BIdx(T.shape[2], c)][BIdx(T.shape[3], r)][BIdx(T.shape[4], w)]

\* a slip: A + B in place of A - B
Sub4AsAdd(A, B) ==
    CHOOSE R \in
        { Build4(BroadcastShape(P[1].shape, P[2].shape),
                 LAMBDA b, c, r, w : At4(P[1], b, c, r, w) + At4(P[2], b, c, r, w)) :
          P \in {<<A, B>>} } : TRUE

\* a slip: the squares are subtracted, A**2 - B**2, as a misplaced bracket gives
Sub4OfSquares(A, B) ==
    CHOOSE R \in
        { Build4(BroadcastShape(P[1].shape, P[2].shape),
                 LAMBDA b, c, r, w : At4(P[1], b, c, r, w) * At4(P[1], b, c, r, w)
                                     - At4(P[2], b, c, r, w) * At4(P[2], b, c, r, w)) :
          P \in {<<A, B>>} } : TRUE

\* A - B, elementwise with broadcasting, on 4-d integer tensors
Sub4(A, B) ==
    CHOOSE R \in
        { Build4(BroadcastShape(P[1].shape, P[2].shape),
                 LAMBDA b, c, r, w : At4(P[1], b, c, r, w) - At4(P[2], b, c, r, w)) :
          P \in {<<A, B>>} } : TRUE

\* a slip: the square is forgotten, the signed differences are averaged
Pow2AsIdentity(A) == A

\* a slip: "* 2" in place of "** 2", the differences are doubled
Pow2AsDouble(A) ==
    CHOOSE R \in
        { Build4(T.shape, LAMBDA b, c, r, w : 2 * T.data[b][c][r][w]) : T \in {A} } : TRUE

\* a slip: absolute differences (the L1 total variation) in place of squares
Pow2AsAbs(A) ==
    CHOOSE R \in
        { Build4(T.shape, LAMBDA b, c, r, w : Abs(T.data[b][c][r][w])) : T \in {A} } : TRUE

\* A ** 2, elementwise
Pow2(A) ==
    CHOOSE R \in
        { Build4(T.shape, LAMBDA b, c, r, w : T.data[b][c][r][w] * T.data[b][c][r][w]) :
          T \in {A} } : TRUE

\* a slip: A.sum(dim=2), the squared differences are summed, not averaged
MeanDim2AsSum(A) ==
    CHOOSE R \in
        { Build3(<<T.shape[1], T.shape[2], T.shape[4]>>,
                 LAMBDA b, c, w :
                    FromInt(SumInts(MkSeq(T.shape[3], LAMBDA r : T.data[b][c][r][w])))) :
          T \in {A} } : TRUE

\* A.mean(dim=2): the mean over the rows, a 3-d tensor of fractions
MeanDim2(A) ==
    CHOOSE R \in
        { Build3(<<T.shape[1], T.shape[2], T.shape[4]>>,
                 LAMBDA b, c, w :
                    FDivInt(FromInt(SumInts(MkSeq(T.shape[3], LAMBDA r : T.data[b][c][r][w]))),
                            T.shape[3])) :
          T \in {A} } : TRUE

\* A.mean(dim=3): the mean over the columns, a 3-d tensor of fractions
MeanDim3(A) ==
    CHOOSE R \in
        { Build3(<<T.shape[1], T.shape[2], T.shape[3]>>,
                 LAMBDA b, c, r : FDivInt(FromInt(SumInts(T.data[b][c][r])), T.shape[4])) :
          T \in {A} } : TRUE

\* A + B, elementwise with broadcasting, on 3-d tensors of fractions
Add3(A, B) ==
    CHOOSE R \in
        { Build3(BroadcastShape(P[1].shape, P[2].shape),
                 LAMBDA b, c, k : FAdd(At3(P[1], b, c, k), At3(P[2], b, c, k))) :
          P \in {<<A, B>>} } : TRUE

\* A.mean(): the mean of all elements of a 3-d tensor of fractions
MeanAll3(A) ==
    CHOOSE R \in
        { FDivInt(SumFracs(MkSeq(T.shape[1], LAMBDA b :
                     SumFracs(MkSeq(T.shape[2], LAMBDA c : SumFracs(T.data[b][c]))))),
                  T.shape[1] * T.shape[2] * T.shape[3]) :
          T \in {A} } : TRUE

\* -------------------------------------------------------------- TV_LOSS
\* line 29 raises unless the two slices broadcast
TVXOk(T, img_size) == Broadcastable(Dim2From1(T).shape, Dim2To(T, img_size - 1).shape)

\* line 29: x = (imgTensor[:,:,1:,:]-imgTensor[:,:,:img_size-1,:])**2
TVX(T, img_size) == Pow2(Sub4(Dim2From1(T), Dim2To(T, img_size - 1)))

\* line 30 raises unless the two slices broadcast
TVYOk(T, img_size) == Broadcastable(Dim3From1(T).shape, Dim3To(T, img_size - 1).shape)

\* line 30: y = (imgTensor[:,:,:,1:]-imgTensor[:,:,:,:img_size-1])**2
TVY(T, img_size) == Pow2(Sub4(Dim3From1(T), Dim3To(T, img_size - 1)))

\* line 32 raises unless the two means broadcast
TVOutOk(x, y) == Broadcastable(MeanDim2(x).shape, MeanDim3(y).shape)

\* line 32: out = (x.mean(dim=2)+y.mean(dim=3)).mean()
TVOut(x, y) == MeanAll3(Add3(MeanDim2(x), MeanDim3(y)))

\* lines 28-33: TV_LOSS(imgTensor, img_size) as one function
TVRun(A, img_size) ==
    CHOOSE R \in
        { IF TVXOk(T, img_size) /\ TVYOk(T, img_size) /\ TVOutOk(TVX(T, img_size), TVY(T, img_size))
          THEN [status |-> "returned", val |-> TVOut(TVX(T, img_size), TVY(T, img_size))]
          ELSE [status |-> "raised", val |-> FromInt(0)] :
          T \in {A} } : TRUE

\* ------------------------------------------- checkpoint files and models
\* the number of age groups: torch.zeros(1, 5), the checks "0-4"
NumAges == 5

\* str(n) for the epoch numbers tried
DigitStr == <<"1", "2", "3", "4", "5", "6", "7", "8", "9">>

\* the stems <N> of the file names tried: the epoch numbers, a zero-padded
\* one and one that is no number
Stems == {DigitStr[n] : n \in 1..MaxEpoch} \cup {"01", "best"}

\* a file name <kind>_epoch_<stem>.<ext>
AllFiles == [kind : {"encoder", "decoder"}, stem : Stems, ext : {"pth", "pt"}]

\* the subsets of S with at most k elements
RECURSIVE SubsetsUpTo(_, _)
SubsetsUpTo(S, k) ==
    IF k = 0 THEN {{}}
    ELSE LET P == SubsetsUpTo(S, k - 1) IN P \cup {p \cup {x} : p \in P, x \in S}

\* the model directories tried: at most MaxFiles files
Dirs == SubsetsUpTo(AllFiles, MaxFiles)

\* [f for f in os.listdir(model_path) if f.startswith('<kind>_epoch_')]
FilesOfKind(files, kind) == {f \in files : f.kind = kind}

\* int(stem) succeeds: the stem is a decimal number
IsInt(stem) == stem = "01" \/ \E n \in DOMAIN DigitStr : DigitStr[n] = stem

\* int(f.split('_')[-1].split('.')[0]): the number the stem denotes
IntOf(f) == IF f.stem = "01" THEN 1 ELSE CHOOSE n \in DOMAIN DigitStr : DigitStr[n] = f.stem

\* latest_epoch = max([int(...) for f in encoder_files])
LatestEpoch(encoder_files) == SetMax({IntOf(f) : f \in encoder_files})

\* os.path.join(model_path, f'<kind>_epoch_{latest_epoch}.pth')
CheckpointPath(kind, latest_epoch) == [kind |-> kind, stem |-> DigitStr[latest_epoch], ext |-> "pth"]

NoFile == [kind |-> "none", stem |-> "none", ext |-> "none"]

\* the value None of a model variable
NoModel == [state |-> "None", from |-> NoFile]

\* a model just constructed: _Encoder(...) / _Decoder(...), weights not loaded
BuiltModel == [state |-> "init", from |-> NoFile]

\* a model after load_state_dict(torch.load(path))
LoadedModel(path) == [state |-> "loaded", from |-> path]

\* get_device(): mps first, then cuda, else cpu
GetDevice(m) == IF "mps" \in m THEN "mps" ELSE IF "cuda" \in m THEN "cuda" ELSE "cpu"

\* the age groups and genders a caller may pass: the valid ones and one
\* beyond each end
AgeValues == (0 - 1)..NumAges

GenderValues == (0 - 1)..2

\* the arguments of a run: whether the input image and the model directory
\* exist, and the three numbers
AllArgs ==
    [input_ok : BOOLEAN, dir_ok : BOOLEAN, current_age : AgeValues,
     target_age : AgeValues, gender : GenderValues]

\* the program prog has just been started with arguments args on a model
\* directory holding files
AppStart(prog, args, files) ==
    [prog |-> prog, pc |-> IF prog = "cli" THEN "cli_validate" ELSE "web_init",
     args |-> args, files |-> files, device |-> "none", latest_epoch |-> 0,
     enc_l |-> NoModel, dec_l |-> NoModel, encoder |-> NoModel, decoder |-> NoModel,
     age_vec |-> <<>>, gender_vec |-> <<>>, calls |-> {}, fault |-> FALSE,
     fed |-> <<>>, result |-> "none", written |-> FALSE, success |-> FALSE]

\* torch.zeros(rows, cols)
Zeros(rows, cols) == [i \in 1..rows |-> [j \in 1..cols |-> 0]]

\* a slip: the gender is passed on as it is, 0 or 1
GenderVecAsIs(gender) == <<(<<gender>>)>>

\* torch.tensor([[2 * gender - 1]], dtype=torch.float)
GenderVec(gender) == <<(<<2 * gender - 1>>)>>

\* vec[0, age] = 1 can be executed on a 1 x NumAges vector
AgeIndexOK(age) == CanAssign(<<1, NumAges>>, 0, age)

\* vec = torch.zeros(1, 5); vec[0, age] = 1
AgeVec(age) == AssignOne(Zeros(1, NumAges), <<1, NumAges>>, 0, age)

\* x is None
IsNone(x) == x.state = "None"

\* ------------------------------------------------------------------ state
\* neither the command line tool nor the web interface is running
NoApp == [prog |-> "none"]

\* the dataset organizer is not running
NoOrg == [pc |-> "none"]

NoFrame ==
    [fn |-> "none", labelTensor |-> NoRef, batchSize |-> 0, n_l |-> 0,
     use_cuda |-> FALSE, device |-> "None", i |-> 0, oneHot |-> NoRef,
     imgTensor |-> NoRef, img_size |-> 0, x |-> NoRef, y |-> NoRef]

NoOutcome == [status |-> "none", ref |-> NoRef, err |-> "none"]

\* what a caller can observe of a call that has not ended
NoObserved == [status |-> "none", err |-> "none", shape |-> <<>>, device |-> "none", data |-> <<>>]

\* the caller remembers no call
NoMemo == [fn |-> "none", calls |-> 0, call |-> NoFrame, between |-> "none", out |-> NoObserved]

Idle(t) == pc[t] \in {"idle", "done"}

\* the state after import: no call has been made
Init ==
    /\ heap = <<>>
    /\ pc = [t \in Threads |-> "idle"]
    /\ frame = [t \in Threads |-> NoFrame]
    /\ outcome = [t \in Threads |-> NoOutcome]
    /\ memo = NoMemo
    /\ machine \in Machines
    /\ app = NoApp /\ org = NoOrg

\* the call raised err: its locals die, the arguments stay with the caller
Raise(t, err) ==
    /\ pc' = [pc EXCEPT ![t] = "done"]
    /\ outcome' = [outcome EXCEPT ![t] = [status |-> "raised", ref |-> NoRef, err |-> err]]

\* h without the object at address a (its last reference died)
Drop(h, a) == [b \in DOMAIN h \ {a} |-> h[b]]

\* a tensor can be placed on the cpu and on the backends the machine has
DeviceOK(dev) == dev = "cpu" \/ dev \in machine

\* ------------------------------------------------------- one_hot, by line
\* the argument list one_hot(labels, batchSize, n_l, use_cuda=pl[1], device=pl[2])
OneHotArgs(labels, batchSize, n_l, pl) ==
    [n_l |-> n_l, batchSize |-> batchSize, labels |-> labels, use_cuda |-> pl[1], device |-> pl[2]]

\* the label list the caller built, as a heap object
LabelObj(t, labels) == [by |-> t, shape |-> <<Len(labels)>>, device |-> "cpu", data |-> labels]

\* the frame of one_hot(labelTensor, batchSize, n_l, use_cuda, device) on entry
OneHotFrame(a, ref) ==
    [NoFrame EXCEPT !.fn = "one_hot", !.labelTensor = ref, !.batchSize = a.batchSize,
                    !.n_l = a.n_l, !.use_cuda = a.use_cuda, !.device = a.device]

\* the caller, between calls, builds a label list and calls one_hot; it keeps
\* the tensors it holds
OneHotCall(t, a) ==
    /\ Idle(t)
    /\ heap' = Store(heap, Fresh(heap), LabelObj(t, a.labels))
    /\ frame' = [frame EXCEPT ![t] = OneHotFrame(a, Fresh(heap))]
    /\ pc' = [pc EXCEPT ![t] = "oh_alloc"]
    /\ outcome' = [outcome EXCEPT ![t] = NoOutcome]
    /\ UNCHANGED <<machine, app, org>>

\* line 15
OneHotAlloc(t) ==
    /\ pc[t] = "oh_alloc"
    /\ LET f == frame[t]
           ref == Fresh(heap)
           new == NewOneHot(f.batchSize, f.n_l)
       IN  /\ heap' = Store(heap, ref, [by |-> t, shape |-> new.shape, device |-> "cpu", data |-> new.data])
           /\ frame' = [frame EXCEPT ![t].oneHot = ref]
    /\ pc' = [pc EXCEPT ![t] = "oh_loop"]
    /\ UNCHANGED <<outcome, memo, machine, app, org>>

\* lines 16-19: one iteration of the loop over enumerate(labelTensor)
OneHotLoop(t) ==
    /\ pc[t] = "oh_loop"
    /\ LET f == frame[t]
           labels == heap[f.labelTensor].data
           oh == heap[f.oneHot]
       IN  IF f.i >= Len(labels)
           THEN /\ pc' = [pc EXCEPT ![t] = "oh_ret"]
                /\ UNCHANGED <<heap, frame, outcome>>
           ELSE LET j_int == JInt(labels[f.i + 1])
                IN  IF CanAssign(oh.shape, f.i, j_int)
                    THEN /\ heap' = [heap EXCEPT ![f.oneHot].data = AssignOne(oh.data, oh.shape, f.i, j_int)]
                         /\ frame' = [frame EXCEPT ![t].i = f.i + 1]
                         /\ UNCHANGED <<pc, outcome>>
                    ELSE /\ Raise(t, "IndexError")
                         /\ heap' = Drop(heap, f.oneHot)
                         /\ UNCHANGED frame
    /\ UNCHANGED <<memo, machine, app, org>>

\* lines 20-26: the matrix is returned on the requested device; .to(device)
\* and .cuda() raise on a machine that lacks the backend
OneHotReturn(t) ==
    /\ pc[t] = "oh_ret"
    /\ LET f == frame[t]
           dev == ReturnDevice(f.use_cuda, f.device)
       IN  IF DeviceOK(dev)
           THEN /\ heap' = [heap EXCEPT ![f.oneHot].device = dev]
                /\ pc' = [pc EXCEPT ![t] = "done"]
                /\ outcome' = [outcome EXCEPT ![t] = [status |-> "returned", ref |-> f.oneHot, err |-> "none"]]
           ELSE /\ Raise(t, "DeviceError")
                /\ heap' = Drop(heap, f.oneHot)
    /\ UNCHANGED <<frame, memo, machine, app, org>>

OneHotStep(t) == OneHotAlloc(t) \/ OneHotLoop(t) \/ OneHotReturn(t)

\* a caller has just called one_hot with some argument list
InitOneHot ==
    /\ memo = NoMemo
    /\ machine \in Machines
    /\ app = NoApp /\ org = NoOrg
    /\ \E n_l \in 1..MaxNl, batchSize \in 0..MaxBatch, len \in 0..MaxBatch, pl \in Placements :
         \E labels \in LabelSeqs(len, n_l) :
           LET a == OneHotArgs(labels, batchSize, n_l, pl)
           IN  /\ heap = Store(<<>>, Fresh(<<>>), LabelObj(SetMin(SeqThreads), a.labels))
               /\ frame = [t \in Threads |->
                             IF t \in SeqThreads THEN OneHotFrame(a, Fresh(<<>>)) ELSE NoFrame]
    /\ pc = [t \in Threads |-> IF t \in SeqThreads THEN "oh_alloc" ELSE "idle"]
    /\ outcome = [t \in Threads |-> NoOutcome]

NextOneHot == \E t \in SeqThreads : OneHotStep(t)

\* one call of one_hot on every argument list, run line by line
SpecOneHot == InitOneHot /\ [][NextOneHot]_vars

\* ------------------------------------------------------- TV_LOSS, by line
PixelVals == 0..MaxPixel

\* the shapes (B, C, H, W) of the image batches tried: H, W >= 2
ImgShapes ==
    {sh \in (1..MaxPixels) \X (1..MaxPixels) \X (2..MaxSize) \X (2..MaxSize) :
        sh[1] * sh[2] * sh[3] * sh[4] <= MaxPixels}

\* which pixels of an image batch of shape sh carry the upper level
ImgMasks(sh) == [1..sh[1] -> [1..sh[2] -> [1..sh[3] -> [1..sh[4] -> BOOLEAN]]]]

\* the two-level image batch with level hi where the mask is set and lo
\* elsewhere; with the levels 0 and 1 these are all the binary image batches
TwoLevel(sh, mask, lo, hi) ==
    [b \in 1..sh[1] |-> [c \in 1..sh[2] |-> [r \in 1..sh[3] |-> [w \in 1..sh[4] |->
        IF mask[b][c][r][w] THEN hi ELSE lo]]]]

\* the argument list TV_LOSS(imgTensor, img_size), imgTensor of shape sh
TVArgs(sh, data, img_size) == [shape |-> sh, data |-> data, img_size |-> img_size]

\* the image batch the caller built, as a heap object
ImgObj(t, a) == [by |-> t, shape |-> a.shape, device |-> "cpu", data |-> a.data]

\* the frame of TV_LOSS(imgTensor, img_size) on entry
TVFrame(a, ref) == [NoFrame EXCEPT !.fn = "TV_LOSS", !.imgTensor = ref, !.img_size = a.img_size]

\* the caller, between calls, builds an image batch and calls TV_LOSS; it
\* keeps the tensors it holds
TVCall(t, a) ==
    /\ Idle(t)
    /\ heap' = Store(heap, Fresh(heap), ImgObj(t, a))
    /\ frame' = [frame EXCEPT ![t] = TVFrame(a, Fresh(heap))]
    /\ pc' = [pc EXCEPT ![t] = "tv_x"]
    /\ outcome' = [outcome EXCEPT ![t] = NoOutcome]
    /\ UNCHANGED <<machine, app, org>>

\* the heap without the locals x and y of thread t's call
DropLocals(h, t) == [a \in DOMAIN h \ {frame[t].x, frame[t].y} |-> h[a]]

\* line 29
TVDiffX(t) ==
    /\ pc[t] = "tv_x"
    /\ LET f == frame[t]
           img == heap[f.imgTensor]
           ref == Fresh(heap)
           x == TVX(img, f.img_size)
       IN  IF TVXOk(img, f.img_size)
           THEN /\ heap' = Store(heap, ref, [by |-> t, shape |-> x.shape, device |-> "cpu", data |-> x.data])
                /\ frame' = [frame EXCEPT ![t].x = ref]
                /\ pc' = [pc EXCEPT ![t] = "tv_y"]
                /\ UNCHANGED outcome
           ELSE /\ Raise(t, "RuntimeError")
                /\ UNCHANGED <<heap, frame>>
    /\ UNCHANGED <<memo, machine, app, org>>

\* line 30
TVDiffY(t) ==
    /\ pc[t] = "tv_y"
    /\ LET f == frame[t]
           img == heap[f.imgTensor]
           ref == Fresh(heap)
           y == TVY(img, f.img_size)
       IN  IF TVYOk(img, f.img_size)
           THEN /\ heap' = Store(heap, ref, [by |-> t, shape |-> y.shape, device |-> "cpu", data |-> y.data])
                /\ frame' = [frame EXCEPT ![t].y = ref]
                /\ pc' = [pc EXCEPT ![t] = "tv_ret"]
                /\ UNCHANGED outcome
           ELSE /\ Raise(t, "RuntimeError")
                /\ heap' = DropLocals(heap, t)
                /\ UNCHANGED frame
    /\ UNCHANGED <<memo, machine, app, org>>

\* lines 32-33: the scalar is computed and returned; x and y die
TVReturn(t) ==
    /\ pc[t] = "tv_ret"
    /\ LET f == frame[t]
           h == DropLocals(heap, t)
           ref == Fresh(h)
       IN  IF TVOutOk(heap[f.x], heap[f.y])
           THEN /\ heap' = Store(h, ref, [by |-> t, shape |-> <<>>, device |-> "cpu",
                                          data |-> TVOut(heap[f.x], heap[f.y])])
                /\ pc' = [pc EXCEPT ![t] = "done"]
                /\ outcome' = [outcome EXCEPT ![t] = [status |-> "returned", ref |-> ref, err |-> "none"]]
           ELSE /\ Raise(t, "RuntimeError")
                /\ heap' = h
    /\ UNCHANGED <<frame, memo, machine, app, org>>

TVStep(t) == TVDiffX(t) \/ TVDiffY(t) \/ TVReturn(t)

\* the 4 x 4 single-channel grid that is 0 except for 10 at row 3, column 1
\* (0-based), passed with img_size = 4
ExampleTVArgs ==
    {TVArgs(<<1, 1, 4, 4>>,
            <<(<<(<<(<<0, 0, 0, 0>>), (<<0, 0, 0, 0>>), (<<0, 0, 0, 0>>), (<<0, 10, 0, 0>>)>>)>>)>>,
            4)}

\* the heap and the frames when the caller has just called TV_LOSS on a
TVEntered(a) ==
    /\ heap = Store(<<>>, Fresh(<<>>), ImgObj(SetMin(SeqThreads), a))
    /\ frame = [t \in Threads |-> IF t \in SeqThreads THEN TVFrame(a, Fresh(<<>>)) ELSE NoFrame]

\* a caller has just called TV_LOSS with some argument list (TV_LOSS places
\* nothing on a device: the machine is one without accelerator)
InitTV ==
    /\ memo = NoMemo
    /\ machine = {}
    /\ app = NoApp /\ org = NoOrg
    /\ \/ \E sh \in ImgShapes, img_size \in 2..MaxSize, lo \in PixelVals, hi \in PixelVals :
            \E mask \in ImgMasks(sh) :
              TVEntered(TVArgs(sh, TwoLevel(sh, mask, lo, hi), img_size))
       \/ \E a \in ExampleTVArgs : TVEntered(a)
    /\ pc = [t \in Threads |-> IF t \in SeqThreads THEN "tv_x" ELSE "idle"]
    /\ outcome = [t \in Threads |-> NoOutcome]

NextTV == \E t \in SeqThreads : TVStep(t)

\* one call of TV_LOSS on every argument list, run line by line
SpecTV == InitTV /\ [][NextTV]_vars

\* ------------------------------------------------- one_hot as one function
\* lines 16-19 from iteration i on: the matrix after the loop, or "IndexError"
RECURSIVE OneHotLoopFrom(_, _, _, _)
OneHotLoopFrom(data, shape, labels, i) ==
    IF i >= Len(labels) THEN [status |-> "returned", data |-> data]
    ELSE IF CanAssign(shape, i, JInt(labels[i + 1]))
         THEN OneHotLoopFrom(AssignOne(data, shape, i, JInt(labels[i + 1])), shape, labels, i + 1)
         ELSE [status |-> "raised", data |-> <<>>]

\* lines 15-19: one_hot(labels, batchSize, n_l) up to the placement of the result
OneHotRun(labels, batchSize, n_l) ==
    OneHotLoopFrom(NewOneHot(batchSize, n_l).data, NewOneHot(batchSize, n_l).shape, labels, 0)

\* --------------------------------------------------- reading a finished call
\* thread t's call of fn has ended (returned or raised)
Finished(t, fn) == pc[t] = "done" /\ frame[t].fn = fn

\* the label sequence thread t passed
LabelsOf(t) == heap[frame[t].labelTensor].data

\* the object thread t's call returned
ResultOf(t) == heap[outcome[t].ref]

Returned(t) == outcome[t].status = "returned"

RaisedErr(t, err) == outcome[t].status = "raised" /\ outcome[t].err = err

\* the call ended as the three-argument call does: it returned, unless the
\* caller asked for a placement (use_cuda=True) that the machine lacks
ReturnedOrNoDevice(t) ==
    Returned(t) \/ (RaisedErr(t, "DeviceError") /\ frame[t].use_cuda
                                                /\ ~DeviceOK(ReturnDevice(TRUE, frame[t].device)))

InRange(j, n_l) == 0 <= j.val /\ j.val < n_l

\* a label sequence of length batchSize whose labels all lie in [0, n_l)
ValidBatch(t) ==
    /\ Len(LabelsOf(t)) = frame[t].batchSize
    /\ \A i \in 1..Len(LabelsOf(t)) : InRange(LabelsOf(t)[i], frame[t].n_l)

\* row i of matrix m holds +1 exactly at 0-based column col and -1 elsewhere
BipolarRow(row, n_l, col) ==
    /\ DOMAIN row = 1..n_l
    /\ \A c \in 1..n_l : row[c] = IF c = col + 1 THEN 1 ELSE 0 - 1

\* ------------------------------------------------- a call made twice
\* what the caller can observe of how thread t's call ended: the status, the
\* error, and the returned tensor's shape, device and contents
Observed(t) ==
    IF Returned(t)
    THEN [status |-> "returned", err |-> "none", shape |-> ResultOf(t).shape,
          device |-> ResultOf(t).device, data |-> ResultOf(t).data]
    ELSE [NoObserved EXCEPT !.status = outcome[t].status, !.err = outcome[t].err]

\* the line a call of fn starts at
EntryPc(fn) == IF fn = "one_hot" THEN "oh_alloc" ELSE "tv_x"

\* the positions of the pixels of an image batch of shape sh
PixelPositions(sh) == (1..sh[1]) \X (1..sh[2]) \X (1..sh[3]) \X (1..sh[4])

\* the mask that is set at position p only
SpotMask(sh, p) ==
    [b \in 1..sh[1] |-> [c \in 1..sh[2] |-> [r \in 1..sh[3] |-> [w \in 1..sh[4] |->
        <<b, c, r, w>> = p]]]]

\* the calls of one_hot tried between the two calls: one returns, one raises
BetweenOneHot ==
    {OneHotArgs(<<[boxed |-> FALSE, val |-> 0]>>, 1, 1, <<FALSE, "None">>),
     OneHotArgs(<<[boxed |-> TRUE, val |-> 1]>>, 1, 1, <<FALSE, "None">>)}

\* the calls of TV_LOSS tried between the two calls: one returns, one raises
BetweenTV ==
    {TVArgs(<<1, 1, 2, 2>>, <<(<<(<<(<<0, 1>>), (<<1, 1>>)>>)>>)>>, 2),
     TVArgs(<<1, 1, 4, 2>>, <<(<<(<<(<<0, 0>>), (<<0, 1>>), (<<0, 0>>), (<<0, 0>>)>>)>>)>>, 3)}

\* the caller makes its first call, of one_hot, and remembers it
PureFirstOneHot(t) ==
    /\ memo.calls = 0
    /\ \E n_l \in 1..MaxNl, len \in 0..PureLen, pl \in Placements :
         \E labels \in LabelSeqs(len, n_l) :
           /\ OneHotCall(t, OneHotArgs(labels, len, n_l, pl))
           /\ memo' = [NoMemo EXCEPT !.fn = "one_hot", !.calls = 1, !.call = frame'[t]]

\* the caller makes its first call, of TV_LOSS, and remembers it
PureFirstTV(t) ==
    /\ memo.calls = 0
    /\ \E sh \in ImgShapes, img_size \in 2..MaxSize, hi \in PixelVals :
         \E p \in PixelPositions(sh) :
           /\ TVCall(t, TVArgs(sh, TwoLevel(sh, SpotMask(sh, p), 0, hi), img_size))
           /\ memo' = [NoMemo EXCEPT !.fn = "TV_LOSS", !.calls = 1, !.call = frame'[t]]

\* the first call has ended; the caller notes how and calls one_hot on
\* something else
PureBetweenOneHot(t) ==
    /\ memo.calls = 1 /\ pc[t] = "done"
    /\ \E a \in BetweenOneHot : OneHotCall(t, a)
    /\ memo' = [memo EXCEPT !.calls = 2, !.between = "one_hot", !.out = Observed(t)]

\* the first call has ended; the caller notes how and calls TV_LOSS on
\* something else
PureBetweenTV(t) ==
    /\ memo.calls = 1 /\ pc[t] = "done"
    /\ \E a \in BetweenTV : TVCall(t, a)
    /\ memo' = [memo EXCEPT !.calls = 2, !.between = "TV_LOSS", !.out = Observed(t)]

\* the caller repeats its first call: the same tensor object, the same
\* other arguments
PureAgain(t) ==
    /\ memo.calls \in {1, 2} /\ pc[t] = "done"
    /\ frame' = [frame EXCEPT ![t] = memo.call]
    /\ pc' = [pc EXCEPT ![t] = EntryPc(memo.fn)]
    /\ outcome' = [outcome EXCEPT ![t] = NoOutcome]
    /\ memo' = [memo EXCEPT !.calls = 3, !.out = IF memo.calls = 1 THEN Observed(t) ELSE memo.out]
    /\ UNCHANGED <<heap, machine, app, org>>

NextPure ==
    \E t \in SeqThreads :
        \/ PureFirstOneHot(t)
        \/ PureFirstTV(t)
        \/ PureBetweenOneHot(t)
        \/ PureBetweenTV(t)
        \/ PureAgain(t)
        \/ OneHotStep(t)
        \/ TVStep(t)

\* a caller calls one_hot or TV_LOSS, possibly makes another call, and then
\* repeats the first call
SpecPure == Init /\ [][NextPure]_vars

\* ------------------------------------------------- concurrent calls
\* the calls the threads make: a one_hot whose matrix is placed on the default
\* accelerator (it returns where the machine has one), a one_hot that raises,
\* a TV_LOSS that returns and a TV_LOSS that raises
ConcCalls ==
    <<[fn |-> "one_hot", a |-> OneHotArgs(<<[boxed |-> TRUE, val |-> 1]>>, 1, 2, <<TRUE, "None">>)],
      [fn |-> "one_hot", a |-> OneHotArgs(<<[boxed |-> FALSE, val |-> 2]>>, 1, 2, <<FALSE, "None">>)],
      [fn |-> "TV_LOSS",
       a |-> TVArgs(<<1, 1, 2, 2>>, <<(<<(<<(<<0, 1>>), (<<1, 1>>)>>)>>)>>, 2)],
      [fn |-> "TV_LOSS",
       a |-> TVArgs(<<1, 1, 4, 2>>, <<(<<(<<(<<0, 0>>), (<<0, 1>>), (<<0, 0>>), (<<0, 0>>)>>)>>)>>, 3)]>>

\* the batch thread t built for call c, as a heap object
ConcObj(t, c) == IF c.fn = "one_hot" THEN LabelObj(t, c.a.labels) ELSE ImgObj(t, c.a)

\* the frame of call c on entry, its batch being at address ref
ConcFrame(c, ref) == IF c.fn = "one_hot" THEN OneHotFrame(c.a, ref) ELSE TVFrame(c.a, ref)

\* every thread has built a batch of its own and has just called one_hot or
\* TV_LOSS on it
InitConc ==
    /\ memo = NoMemo
    /\ machine \in Machines
    /\ app = NoApp /\ org = NoOrg
    /\ \E c \in [Threads -> DOMAIN ConcCalls] :
         /\ heap = [t \in Threads |-> ConcObj(t, ConcCalls[c[t]])]
         /\ frame = [t \in Threads |-> ConcFrame(ConcCalls[c[t]], t)]
         /\ pc = [t \in Threads |-> EntryPc(ConcCalls[c[t]].fn)]
    /\ outcome = [t \in Threads |-> NoOutcome]

NextConc == \E t \in Threads : OneHotStep(t) \/ TVStep(t)

\* the calls of the threads run line by line, their steps interleaved in
\* every order
SpecConc == InitConc /\ [][NextConc]_vars

\* what the call of one_hot in thread t's frame gives when it runs alone
AloneOneHot(t) ==
    LET f == frame[t]
        run == OneHotRun(heap[f.labelTensor].data, f.batchSize, f.n_l)
        dev == ReturnDevice(f.use_cuda, f.device)
    IN  IF run.status = "raised"
        THEN [NoObserved EXCEPT !.status = "raised", !.err = "IndexError"]
        ELSE IF ~DeviceOK(dev)
        THEN [NoObserved EXCEPT !.status = "raised", !.err = "DeviceError"]
        ELSE [status |-> "returned", err |-> "none", shape |-> <<f.batchSize, f.n_l>>,
              device |-> dev, data |-> run.data]

\* what the call of TV_LOSS in thread t's frame gives when it runs alone
AloneTV(t) ==
    LET f == frame[t]
        run == TVRun([shape |-> heap[f.imgTensor].shape, data |-> heap[f.imgTensor].data], f.img_size)
    IN  IF run.status = "raised"
        THEN [NoObserved EXCEPT !.status = "raised", !.err = "RuntimeError"]
        ELSE [status |-> "returned", err |-> "none", shape |-> <<>>, device |-> "cpu",
              data |-> run.val]

\* what the call in thread t's frame gives when it runs alone
Alone(t) == IF frame[t].fn = "one_hot" THEN AloneOneHot(t) ELSE AloneTV(t)

\* ------------------------------------------- the command line tool by line
\* the rest of the state, which a step of an interface leaves alone
AppOnly == UNCHANGED <<heap, pc, frame, outcome, memo, machine, org>>

\* a slip: the gender is not checked
ArgsValidNoGender(args) ==
    /\ args.input_ok
    /\ args.dir_ok
    /\ ~(args.current_age < 0 \/ args.current_age > 4)
    /\ ~(args.target_age < 0 \/ args.target_age > 4)

\* cli_interface.py 132-151: the five checks of main
ArgsValid(args) ==
    /\ args.input_ok
    /\ args.dir_ok
    /\ ~(args.current_age < 0 \/ args.current_age > 4)
    /\ ~(args.target_age < 0 \/ args.target_age > 4)
    /\ ~(args.gender < 0 \/ args.gender > 1)

\* main, lines 132-151: a failed check prints and returns
CliValidate ==
    /\ app.prog = "cli" /\ app.pc = "cli_validate"
    /\ app' = [app EXCEPT !.pc = IF ArgsValid(app.args) THEN "cli_device" ELSE "exit"]
    /\ AppOnly

\* main, line 154: device = get_device()
CliGetDevice ==
    /\ app.prog = "cli" /\ app.pc = "cli_device"
    /\ app' = [app EXCEPT !.pc = "cli_load", !.device = GetDevice(machine),
                          !.calls = @ \cup {"get_device"}]
    /\ AppOnly

\* load_models, lines 61-63, and the assignment of line 155 in main:
\* encoder, decoder = None, None
CliExcept(a, env) ==
    [a EXCEPT !.pc = "cli_check", !.enc_l = NoModel, !.dec_l = NoModel,
              !.encoder = NoModel, !.decoder = NoModel, !.fault = @ \/ env]

\* load_models, lines 28-38: the import, the listing, the latest epoch.  The
\* import of ChildGANTrain may fail; an empty list raises FileNotFoundError,
\* a stem that is no number raises ValueError
CliLoadDiscover ==
    /\ app.prog = "cli" /\ app.pc = "cli_load"
    /\ \E a \in {[app EXCEPT !.calls = @ \cup {"load_models"}]} :
         \/ app' = CliExcept(a, TRUE)
         \/ LET encoder_files == FilesOfKind(a.files, "encoder") IN
            app' = IF encoder_files = {} \/ \E f \in encoder_files : ~IsInt(f.stem)
                     THEN CliExcept(a, FALSE)
                     ELSE [a EXCEPT !.pc = "cli_build",
                                    !.latest_epoch = LatestEpoch(encoder_files)]
    /\ AppOnly

\* load_models, lines 43-44: both architectures are constructed (or one of
\* the constructors raises)
CliLoadBuild ==
    /\ app.prog = "cli" /\ app.pc = "cli_build"
    /\ \/ app' = [app EXCEPT !.pc = "cli_load_enc", !.enc_l = BuiltModel, !.dec_l = BuiltModel]
       \/ app' = CliExcept(app, TRUE)
    /\ AppOnly

\* load_models, lines 47 and 50: the encoder weights; a missing file raises,
\* an unreadable one may
CliLoadEncoder ==
    /\ app.prog = "cli" /\ app.pc = "cli_load_enc"
    /\ LET encoder_path == CheckpointPath("encoder", app.latest_epoch) IN
         IF encoder_path \in app.files
           THEN \/ app' = [app EXCEPT !.pc = "cli_load_dec", !.enc_l = LoadedModel(encoder_path)]
                \/ app' = CliExcept(app, TRUE)
           ELSE app' = CliExcept(app, FALSE)
    /\ AppOnly

\* load_models, lines 48 and 51: the decoder weights
CliLoadDecoder ==
    /\ app.prog = "cli" /\ app.pc = "cli_load_dec"
    /\ LET decoder_path == CheckpointPath("decoder", app.latest_epoch) IN
         IF decoder_path \in app.files
           THEN \/ app' = [app EXCEPT !.pc = "cli_load_ret", !.dec_l = LoadedModel(decoder_path)]
                \/ app' = CliExcept(app, TRUE)
           ELSE app' = CliExcept(app, FALSE)
    /\ AppOnly

\* load_models, lines 53-59, and line 155 of main: eval, to(device) (either
\* may raise), return
CliLoadReturn ==
    /\ app.prog = "cli" /\ app.pc = "cli_load_ret"
    /\ \/ app' = [app EXCEPT !.pc = "cli_check", !.encoder = app.enc_l, !.decoder = app.dec_l]
       \/ app' = CliExcept(app, TRUE)
    /\ AppOnly

\* main, lines 157-158: if encoder is None or decoder is None: return
CliCheckModels ==
    /\ app.prog = "cli" /\ app.pc = "cli_check"
    /\ app' = [app EXCEPT !.pc = IF IsNone(app.encoder) \/ IsNone(app.decoder)
                                   THEN "exit" ELSE "cli_open"]
    /\ AppOnly

\* age_progress_image, lines 109-111, and where its caller goes on: main
\* at line 172, any other caller after the call
ImageExcept(a, env) ==
    [a EXCEPT !.pc = IF a.prog = "cli" THEN "cli_finish" ELSE "exit",
              !.result = "None", !.fault = @ \/ env]

\* age_progress_image, lines 67-80: the image is opened and transformed
CliOpenImage ==
    /\ app.prog \in {"cli", "image"} /\ app.pc = "cli_open"
    /\ \E a \in {[app EXCEPT !.calls = @ \cup {"age_progress_image"}]} :
         IF a.args.input_ok
           THEN \/ app' = [a EXCEPT !.pc = "cli_vectors"]
                \/ app' = ImageExcept(a, TRUE)
           ELSE app' = ImageExcept(a, FALSE)
    /\ AppOnly

\* age_progress_image, lines 83-86: the target-age and the gender vector
CliVectors ==
    /\ app.prog \in {"cli", "image"} /\ app.pc = "cli_vectors"
    /\ app' = IF AgeIndexOK(app.args.target_age)
                THEN [app EXCEPT !.pc = "cli_forward",
                                 !.age_vec = AgeVec(app.args.target_age),
                                 !.gender_vec = GenderVec(app.args.gender)]
                ELSE ImageExcept(app, FALSE)
    /\ AppOnly

\* age_progress_image, lines 89-91: z_img = encoder(img_tensor);
\* aged_img = decoder(z_img, target_age_vec, gender_vec)
CliForward ==
    /\ app.prog \in {"cli", "image"} /\ app.pc = "cli_forward"
    /\ \/ app' = [app EXCEPT !.pc = "cli_save",
                             !.fed = Append(@, [encoder |-> app.encoder, decoder |-> app.decoder,
                                                age_vec |-> app.age_vec,
                                                gender_vec |-> app.gender_vec])]
       \/ app' = ImageExcept(app, TRUE)
    /\ AppOnly

\* age_progress_image, lines 94-107: the image is saved, the summary is
\* printed (age_names[current_age] raises for an index outside the list),
\* the image is returned
CliSave ==
    /\ app.prog \in {"cli", "image"} /\ app.pc = "cli_save"
    /\ \/ app' = IF IndexOK(app.args.current_age, NumAges)
                   THEN [app EXCEPT !.pc = IF app.prog = "cli" THEN "cli_finish" ELSE "exit",
                                    !.written = TRUE, !.result = "image"]
                   ELSE [ImageExcept(app, FALSE) EXCEPT !.written = TRUE]
       \/ app' = ImageExcept(app, TRUE)
    /\ AppOnly

\* main, lines 172-173: if result: print the success message
CliFinish ==
    /\ app.prog = "cli" /\ app.pc = "cli_finish"
    /\ app' = [app EXCEPT !.pc = "exit", !.success = (app.result = "image")]
    /\ AppOnly

\* ------------------------------------------- the web interface by line
\* ChildGANInterface.__init__, lines 25-28: the device, encoder and decoder
\* None; line 29 then calls load_models
WebInit ==
    /\ app.prog = "web" /\ app.pc = "web_init"
    /\ app' = [app EXCEPT !.pc = "web_discover", !.device = GetDevice(machine),
                          !.encoder = NoModel, !.decoder = NoModel,
                          !.calls = @ \cup {"get_device"}]
    /\ AppOnly

\* a slip: the handler forgets the encoder
WebExceptKeepsEncoder(a, env) ==
    [a EXCEPT !.pc = "web_ready", !.decoder = NoModel, !.fault = @ \/ env]

\* ChildGANInterface.load_models, lines 90-93: both attributes are reset
WebExcept(a, env) ==
    [a EXCEPT !.pc = "web_ready", !.encoder = NoModel, !.decoder = NoModel,
              !.fault = @ \/ env]

\* load_models, lines 55-68: both listings (a missing directory raises),
\* the early return when either is empty, the latest epoch
WebLoadDiscover ==
    /\ app.prog = "web" /\ app.pc = "web_discover"
    /\ \E a \in {[app EXCEPT !.calls = @ \cup {"load_models"}]} :
         LET encoder_files == FilesOfKind(a.files, "encoder")
             decoder_files == FilesOfKind(a.files, "decoder")
         IN  app' = IF ~a.args.dir_ok THEN WebExcept(a, FALSE)
                    ELSE IF encoder_files = {} \/ decoder_files = {}
                      THEN [a EXCEPT !.pc = "web_ready"]
                    ELSE IF \E f \in encoder_files : ~IsInt(f.stem)
                      THEN WebExcept(a, FALSE)
                    ELSE [a EXCEPT !.pc = "web_build_enc",
                                   !.latest_epoch = LatestEpoch(encoder_files)]
    /\ AppOnly

\* load_models, line 73: self.encoder = _Encoder(...); the name is undefined
\* when the import at the top of the file failed, and the constructor may raise
WebBuildEncoder ==
    /\ app.prog = "web" /\ app.pc = "web_build_enc"
    /\ \/ app' = [app EXCEPT !.pc = "web_build_dec", !.encoder = BuiltModel]
       \/ app' = WebExcept(app, TRUE)
    /\ AppOnly

\* load_models, line 74: self.decoder = _Decoder(...)
WebBuildDecoder ==
    /\ app.prog = "web" /\ app.pc = "web_build_dec"
    /\ \/ app' = [app EXCEPT !.pc = "web_load_enc", !.decoder = BuiltModel]
       \/ app' = WebExcept(app, TRUE)
    /\ AppOnly

\* load_models, lines 67 and 77: the encoder weights
WebLoadEncoder ==
    /\ app.prog = "web" /\ app.pc = "web_load_enc"
    /\ LET encoder_path == CheckpointPath("encoder", app.latest_epoch) IN
         IF encoder_path \in app.files
           THEN \/ app' = [app EXCEPT !.pc = "web_load_dec", !.encoder = LoadedModel(encoder_path)]
                \/ app' = WebExcept(app, TRUE)
           ELSE app' = WebExcept(app, FALSE)
    /\ AppOnly

\* load_models, lines 68 and 78: the decoder weights
WebLoadDecoder ==
    /\ app.prog = "web" /\ app.pc = "web_load_dec"
    /\ LET decoder_path == CheckpointPath("decoder", app.latest_epoch) IN
         IF decoder_path \in app.files
           THEN \/ app' = [app EXCEPT !.pc = "web_load_done", !.decoder = LoadedModel(decoder_path)]
                \/ app' = WebExcept(app, TRUE)
           ELSE app' = WebExcept(app, FALSE)
    /\ AppOnly

\* load_models, lines 81-88: eval, to(device) (either may raise), the message
WebLoadDone ==
    /\ app.prog = "web" /\ app.pc = "web_load_done"
    /\ \/ app' = [app EXCEPT !.pc = "web_ready"]
       \/ app' = WebExcept(app, TRUE)
    /\ AppOnly

\* age_progress, lines 131-132: the error message is returned
ProgressExcept(a, env) ==
    [a EXCEPT !.pc = "exit", !.result = "error", !.fault = @ \/ env]

\* age_progress, lines 97-98: a request is refused unless both models are there
WebProgress ==
    /\ app.prog = "web" /\ app.pc = "web_ready"
    /\ \E a \in {[app EXCEPT !.calls = @ \cup {"age_progress"}]} :
         app' = IF IsNone(a.encoder) \/ IsNone(a.decoder)
                  THEN [a EXCEPT !.pc = "exit", !.result = "error"]
                  ELSE [a EXCEPT !.pc = "web_open"]
    /\ AppOnly

\* age_progress, lines 101-108: the image is opened and transformed
WebOpenImage ==
    /\ app.prog = "web" /\ app.pc = "web_open"
    /\ IF app.args.input_ok
         THEN \/ app' = [app EXCEPT !.pc = "web_vec_cur"]
              \/ app' = ProgressExcept(app, TRUE)
         ELSE app' = ProgressExcept(app, FALSE)
    /\ AppOnly

\* age_progress, lines 111-112: the current-age vector, which nothing reads
WebCurrentVec ==
    /\ app.prog = "web" /\ app.pc = "web_vec_cur"
    /\ app' = IF AgeIndexOK(app.args.current_age)
                THEN [app EXCEPT !.pc = "web_vectors"]
                ELSE ProgressExcept(app, FALSE)
    /\ AppOnly

\* age_progress, lines 114-117: the target-age and the gender vector
WebVectors ==
    /\ app.prog = "web" /\ app.pc = "web_vectors"
    /\ app' = IF AgeIndexOK(app.args.target_age)
                THEN [app EXCEPT !.pc = "web_forward",
                                 !.age_vec = AgeVec(app.args.target_age),
                                 !.gender_vec = GenderVec(app.args.gender)]
                ELSE ProgressExcept(app, FALSE)
    /\ AppOnly

\* age_progress, lines 120-124: z_img = self.encoder(img_tensor);
\* aged_img = self.decoder(z_img, target_age_vec, gender_vec)
WebForward ==
    /\ app.prog = "web" /\ app.pc = "web_forward"
    /\ \/ app' = [app EXCEPT !.pc = "web_return",
                             !.fed = Append(@, [encoder |-> app.encoder, decoder |-> app.decoder,
                                                age_vec |-> app.age_vec,
                                                gender_vec |-> app.gender_vec])]
       \/ app' = ProgressExcept(app, TRUE)
    /\ AppOnly

\* age_progress, lines 127-129: the image is converted and returned
WebReturn ==
    /\ app.prog = "web" /\ app.pc = "web_return"
    /\ \/ app' = [app EXCEPT !.pc = "exit", !.result = "image"]
       \/ app' = ProgressExcept(app, TRUE)
    /\ AppOnly

\* ------------------------------------------------ runs of the interfaces
\* a directory with one matching pair of checkpoints
ExampleDir == {CheckpointPath("encoder", 1), CheckpointPath("decoder", 1)}

\* arguments that pass every check of main
ExampleArgs ==
    [input_ok |-> TRUE, dir_ok |-> TRUE, current_age |-> 0, target_age |-> 4, gender |-> 1]

\* age_progress_image called on its own, with two loaded models, as main
\* calls it at lines 161-170
ImageCall(args) ==
    [AppStart("image", args, ExampleDir) EXCEPT
        !.pc = "cli_open", !.device = GetDevice(machine),
        !.encoder = LoadedModel(CheckpointPath("encoder", 1)),
        !.decoder = LoadedModel(CheckpointPath("decoder", 1))]

\* one run of the command line tool, of the web interface (its construction
\* and one request), or of age_progress_image: every combination of
\* arguments on the example directory, and the example arguments on every
\* directory
InitApp ==
    /\ heap = <<>>
    /\ pc = [t \in Threads |-> "idle"]
    /\ frame = [t \in Threads |-> NoFrame]
    /\ outcome = [t \in Threads |-> NoOutcome]
    /\ memo = NoMemo
    /\ machine \in Machines
    /\ org = NoOrg
    /\ \/ \E prog \in {"cli", "web"}, args \in AllArgs :
            app = AppStart(prog, args, IF args.dir_ok THEN ExampleDir ELSE {})
       \/ \E prog \in {"cli", "web"}, files \in Dirs :
            app = AppStart(prog, ExampleArgs, files)
       \/ \E args \in AllArgs : app = ImageCall(args)

NextApp ==
    \/ CliValidate \/ CliGetDevice
    \/ CliLoadDiscover \/ CliLoadBuild \/ CliLoadEncoder \/ CliLoadDecoder \/ CliLoadReturn
    \/ CliCheckModels
    \/ CliOpenImage \/ CliVectors \/ CliForward \/ CliSave \/ CliFinish
    \/ WebInit
    \/ WebLoadDiscover \/ WebBuildEncoder \/ WebBuildDecoder
    \/ WebLoadEncoder \/ WebLoadDecoder \/ WebLoadDone
    \/ WebProgress \/ WebOpenImage \/ WebCurrentVec \/ WebVectors \/ WebForward \/ WebReturn

SpecApp == InitApp /\ [][NextApp]_vars

\* ------------------------------------------- the dataset organizer by line
\* the number of new classes: range(22)
NumClasses == 22

\* a slip: the remainder is not handed out
EndIdxNoExtra(file_idx, files_per_new_class, new_class, n) ==
    SetMin({file_idx + files_per_new_class, n})

\* line 69: end_idx = min(file_idx + files_per_new_class +
\*                       (1 if new_class < len(image_files) % 22 else 0), len(image_files))
EndIdx(file_idx, files_per_new_class, new_class, n) ==
    SetMin({file_idx + files_per_new_class + (IF new_class < n % NumClasses THEN 1 ELSE 0), n})

\* the organizer has reached an old class whose directory exists and holds n
\* image files, of which those at the indices in bad cannot be copied
OrgStart(n, bad) ==
    [pc |-> "list", n |-> n, bad |-> bad, files_per_new_class |-> 0, file_idx |-> 0,
     new_class |-> 0, start_idx |-> 0, end_idx |-> 0, i |-> 0,
     ranges |-> <<>>, attempts |-> <<>>, total_files |-> 0, files_per_class |-> <<>>]

\* the rest of the state, which a step of the organizer leaves alone
OrgOnly == UNCHANGED <<heap, pc, frame, outcome, memo, machine, app>>

\* lines 56-66: the images are listed, files_per_new_class = n // 22,
\* file_idx = 0, the loop over the new classes starts
OrgList ==
    /\ org.pc = "list"
    /\ org' = [org EXCEPT !.pc = "range", !.files_per_new_class = org.n \div NumClasses,
                          !.file_idx = 0, !.new_class = 0]
    /\ OrgOnly

\* lines 68-74: start_idx and end_idx of this new class; the copy loop starts
OrgRange ==
    /\ org.pc = "range"
    /\ LET end_idx == EndIdx(org.file_idx, org.files_per_new_class, org.new_class, org.n) IN
       org' = [org EXCEPT !.pc = "copy", !.start_idx = org.file_idx, !.end_idx = end_idx,
                          !.i = org.file_idx,
                          !.ranges = Append(@, <<org.file_idx, end_idx>>)]
    /\ OrgOnly

\* files_per_class[new_class] += 1, the entry starting at 0 (lines 84-86)
CountOne(files_per_class, new_class) ==
    [c \in DOMAIN files_per_class \cup {new_class} |->
        IF c = new_class
          THEN (IF c \in DOMAIN files_per_class THEN files_per_class[c] ELSE 0) + 1
          ELSE files_per_class[c]]

\* lines 74-89: one round of the copy loop; shutil.copy2 raises for the
\* images that cannot be copied, the handler prints and the loop goes on
OrgCopy ==
    /\ org.pc = "copy" /\ org.i < org.end_idx
    /\ org' = IF ~(org.i < org.n) THEN [org EXCEPT !.i = @ + 1]
              ELSE IF org.i \in org.bad
                THEN [org EXCEPT !.i = @ + 1,
                                 !.attempts = Append(@, [i |-> org.i, new_class |-> org.new_class,
                                                         copied |-> FALSE])]
                ELSE [org EXCEPT !.i = @ + 1,
                                 !.attempts = Append(@, [i |-> org.i, new_class |-> org.new_class,
                                                         copied |-> TRUE]),
                                 !.total_files = @ + 1,
                                 !.files_per_class = CountOne(@, org.new_class)]
    /\ OrgOnly

\* lines 74, 91 and 66: the copy loop is over, file_idx = end_idx, the next
\* new class or the end of this old class
OrgNextClass ==
    /\ org.pc = "copy" /\ ~(org.i < org.end_idx)
    /\ org' = [org EXCEPT !.file_idx = org.end_idx,
                          !.new_class = IF @ + 1 < NumClasses THEN @ + 1 ELSE @,
                          !.pc = IF org.new_class + 1 < NumClasses THEN "range" ELSE "done"]
    /\ OrgOnly

\* an old class of up to MaxImages images, up to MaxBad of which cannot be copied
InitOrg ==
    /\ heap = <<>>
    /\ pc = [t \in Threads |-> "idle"]
    /\ frame = [t \in Threads |-> NoFrame]
    /\ outcome = [t \in Threads |-> NoOutcome]
    /\ memo = NoMemo
    /\ machine = {}
    /\ app = NoApp
    /\ \E n \in 0..MaxImages :
         \E bad \in SubsetsUpTo(0..(n - 1), MaxBad) :
            org = OrgStart(n, bad)

NextOrg == OrgList \/ OrgRange \/ OrgCopy \/ OrgNextClass

SpecOrg == InitOrg /\ [][NextOrg]_vars

\* ----------------------------------------------------------------- claims
\* C1: for n_l >= 1 and a label sequence of length B with all labels in
\* [0, n_l), one_hot returns a B x n_l matrix whose row i holds +1 exactly at
\* column labels[i] and -1 in every other column.
C1_OneHotEncodes ==
    \A t \in Threads :
        (Finished(t, "one_hot") /\ ValidBatch(t)) =>
            /\ ReturnedOrNoDevice(t)
            /\ Returned(t) =>
                 /\ ResultOf(t).shape = <<frame[t].batchSize, frame[t].n_l>>
                 /\ DOMAIN ResultOf(t).data = 1..frame[t].batchSize
                 /\ \A i \in 1..frame[t].batchSize :
                      BipolarRow(ResultOf(t).data[i], frame[t].n_l, LabelsOf(t)[i].val)

\* a valid batch of two different labels, plain and wrapped, was encoded
C1_Witness ==
    \E t \in Threads :
        /\ Finished(t, "one_hot") /\ ValidBatch(t) /\ Returned(t)
        /\ frame[t].batchSize = 2 /\ frame[t].n_l = 2
        /\ LabelsOf(t)[1].val = 1 /\ LabelsOf(t)[2].val = 0
        /\ ResultOf(t).data = <<(<<0 - 1, 1>>), (<<1, 0 - 1>>)>>

\* C2: if any label lies outside [0, n_l), negative labels included, the call
\* fails with an index-out-of-bounds error and returns no matrix.
C2_OutOfRangeRaises ==
    \A t \in Threads :
        (/\ Finished(t, "one_hot")
         /\ Len(LabelsOf(t)) = frame[t].batchSize
         /\ \E i \in 1..Len(LabelsOf(t)) : ~InRange(LabelsOf(t)[i], frame[t].n_l))
        => RaisedErr(t, "IndexError")

\* C3: a batch that contains a label equal to n_l makes one_hot raise an
\* error instead of returning a result.
C3_LabelEqualNlRaises ==
    \A t \in Threads :
        (/\ Finished(t, "one_hot")
         /\ \E i \in 1..Len(LabelsOf(t)) : LabelsOf(t)[i].val = frame[t].n_l)
        => (~Returned(t) /\ RaisedErr(t, "IndexError"))

\* a batch of length B whose only bad label is n_l, in the last row, raised
C3_Witness ==
    \E t \in Threads :
        /\ Finished(t, "one_hot") /\ RaisedErr(t, "IndexError")
        /\ frame[t].batchSize = 2 /\ Len(LabelsOf(t)) = 2
        /\ InRange(LabelsOf(t)[1], frame[t].n_l)
        /\ LabelsOf(t)[2].val = frame[t].n_l

\* C4: for an empty label sequence with batchSize 0 and any n_l >= 1, one_hot
\* returns without error a matrix with zero rows and n_l columns.
C4_EmptyBatch ==
    \A t \in Threads :
        (Finished(t, "one_hot") /\ frame[t].batchSize = 0 /\ Len(LabelsOf(t)) = 0) =>
            /\ ReturnedOrNoDevice(t)
            /\ Returned(t) =>
                 /\ ResultOf(t).shape = <<0, frame[t].n_l>>
                 /\ ResultOf(t).data = <<>>

\* the empty batch was encoded for two classes
C4_Witness ==
    \E t \in Threads :
        /\ Finished(t, "one_hot") /\ Returned(t)
        /\ frame[t].batchSize = 0 /\ Len(LabelsOf(t)) = 0 /\ frame[t].n_l = 2
        /\ ResultOf(t).shape = <<0, 2>>

\* the tensors the running call of thread t allocated itself
Locals(t) == {frame[t].oneHot, frame[t].x, frame[t].y} \ {NoRef}

\* thread t is inside a call
InCall(t) == pc[t] \notin {"idle", "done"}

\* the step leaves every tensor that the running call of t did not allocate
\* itself (its argument, the caller's other tensors) alive and as it was
WritesOnlyOwn(t) ==
    \A a \in DOMAIN heap \ Locals(t) : a \in DOMAIN heap' /\ heap'[a] = heap[a]

\* C5: one_hot and TV_LOSS are pure: every step of a call leaves the input
\* label sequence / image tensor (and every other tensor the call did not
\* allocate) unchanged and writes only to storage the call allocated afresh,
\* and a call repeated on the same input ends as the first one did, whatever
\* call was made in between.
C5_Pure ==
    [][\A t \in SeqThreads :
          /\ InCall(t) => WritesOnlyOwn(t)
          /\ (InCall(t) /\ pc'[t] = "done" /\ memo.calls = 3) => Observed(t)' = memo.out]_vars

\* one_hot returned a matrix, TV_LOSS was called in between, and one_hot
\* called again on the same label list returned an equal matrix in a new
\* tensor, the label list being as it was built
C5_Witness ==
    \E t \in SeqThreads :
        /\ memo.fn = "one_hot" /\ memo.between = "TV_LOSS" /\ memo.calls = 3
        /\ pc[t] = "done" /\ Returned(t)
        /\ Observed(t) = memo.out
        /\ ResultOf(t).data = <<(<<0 - 1, 1>>)>>
        /\ LabelsOf(t) = <<[boxed |-> TRUE, val |-> 1]>>
        /\ Cardinality({a \in DOMAIN heap : heap[a].shape = <<1, 2>>}) = 2

\* the same labels, each given as a plain integer
AsPlain(labels) == [i \in 1..Len(labels) |-> [boxed |-> FALSE, val |-> labels[i].val]]

\* the same labels, each given as a single-value wrapper
AsBoxed(labels) == [i \in 1..Len(labels) |-> [boxed |-> TRUE, val |-> labels[i].val]]

ImgOf(t) == [shape |-> heap[frame[t].imgTensor].shape, data |-> heap[frame[t].imgTensor].data]

\* the image batch has shape (B, C, S, S) with S = img_size
SquareOfImgSize(t) ==
    /\ ImgOf(t).shape[3] = frame[t].img_size
    /\ ImgOf(t).shape[4] = frame[t].img_size

\* all the pixels of T, as a set
PixelsOf(T) ==
    {T.data[b][c][r][w] : <<b, c, r, w>> \in
        (1..T.shape[1]) \X (1..T.shape[2]) \X (1..T.shape[3]) \X (1..T.shape[4])}

\* every pixel of the whole batch has the same value
ConstantBatch(T) == Cardinality(PixelsOf(T)) = 1

\* every (batch, channel) plane is constant, each with a value of its own
ConstantPlanes(T) ==
    \A b \in 1..T.shape[1], c \in 1..T.shape[2] :
        \A r \in 1..T.shape[3], w \in 1..T.shape[4] : T.data[b][c][r][w] = T.data[b][c][1][1]

\* A + k: every pixel shifted by k
Shift(A, k) ==
    CHOOSE R \in { Build4(T.shape, LAMBDA b, c, r, w : T.data[b][c][r][w] + k) : T \in {A} } : TRUE

\* a * A: every pixel scaled by a
Scale(A, a) ==
    CHOOSE R \in { Build4(T.shape, LAMBDA b, c, r, w : a * T.data[b][c][r][w]) : T \in {A} } : TRUE

Shifts == (0 - MaxShift)..MaxShift

Scales == (0 - MaxScale)..MaxScale

\* C7: for an image batch of shape (B, C, S, S), S = img_size >= 2, in which
\* every pixel has the same value, TV_LOSS returns exactly 0.
C7_ConstantImageZero ==
    \A t \in Threads :
        (Finished(t, "TV_LOSS") /\ SquareOfImgSize(t) /\ ConstantBatch(ImgOf(t))) =>
            (Returned(t) /\ ResultOf(t).data = FromInt(0))

\* a 3 x 3 image of all ones was given and 0 came back
C7_Witness ==
    \E t \in Threads :
        /\ Finished(t, "TV_LOSS") /\ Returned(t)
        /\ ImgOf(t).shape = <<1, 1, 3, 3>> /\ frame[t].img_size = 3
        /\ PixelsOf(ImgOf(t)) = {1}
        /\ ResultOf(t).data = FromInt(0)

\* C8 as stated: TV_LOSS returns a value >= 0, and 0 only if every pixel of
\* the whole batch has the same value.
C8_ZeroOnlyIfBatchConstant ==
    \A t \in Threads :
        (Finished(t, "TV_LOSS") /\ SquareOfImgSize(t) /\ Returned(t)) =>
            /\ ResultOf(t).data[1] >= 0
            /\ ResultOf(t).data = FromInt(0) => ConstantBatch(ImgOf(t))

\* C8 amended: for shape (B, C, S, S), S = img_size >= 2, TV_LOSS returns a
\* value >= 0, and it returns 0 exactly when every (batch, channel) plane is
\* constant; different planes may hold different constants.
C8_ZeroIffPlanesConstant ==
    \A t \in Threads :
        (Finished(t, "TV_LOSS") /\ SquareOfImgSize(t)) =>
            /\ Returned(t)
            /\ ResultOf(t).data[1] >= 0 /\ ResultOf(t).data[2] > 0
            /\ ResultOf(t).data = FromInt(0) <=> ConstantPlanes(ImgOf(t))

\* two constant planes of different value gave 0
C8_Witness ==
    \E t \in Threads :
        /\ Finished(t, "TV_LOSS") /\ SquareOfImgSize(t) /\ Returned(t)
        /\ ImgOf(t).shape[1] * ImgOf(t).shape[2] = 2
        /\ ConstantPlanes(ImgOf(t)) /\ ~ConstantBatch(ImgOf(t))
        /\ ResultOf(t).data = FromInt(0)

\* C9: for shape (B, C, S, S), S = img_size >= 2, and every constant k,
\* TV_LOSS(X + k) = TV_LOSS(X).
C9_ShiftInvariant ==
    \A t \in Threads :
        (Finished(t, "TV_LOSS") /\ SquareOfImgSize(t)) =>
            /\ Returned(t)
            /\ \A k \in Shifts :
                 /\ TVRun(Shift(ImgOf(t), k), frame[t].img_size).status = "returned"
                 /\ TVRun(Shift(ImgOf(t), k), frame[t].img_size).val = ResultOf(t).data

\* a 3 x 3 image that is not constant gave a positive value
C9_Witness ==
    \E t \in Threads :
        /\ Finished(t, "TV_LOSS") /\ Returned(t)
        /\ ImgOf(t).shape = <<1, 1, 3, 3>> /\ frame[t].img_size = 3
        /\ ImgOf(t).data[1][1][2][2] = 1 /\ ImgOf(t).data[1][1][1][1] = 0
        /\ ResultOf(t).data[1] > 0
        /\ TVRun(Shift(ImgOf(t), 2), 3).val = ResultOf(t).data

\* C10: for shape (B, C, S, S), S = img_size >= 2, and every scale factor a,
\* TV_LOSS(a * X) = a^2 * TV_LOSS(X): quadratic, not linear, in the scale.
C10_ScalesQuadratically ==
    \A t \in Threads :
        (Finished(t, "TV_LOSS") /\ SquareOfImgSize(t)) =>
            /\ Returned(t)
            /\ \A a \in Scales :
                 LET scaled == TVRun(Scale(ImgOf(t), a), frame[t].img_size)
                 IN  /\ scaled.status = "returned"
                     /\ scaled.val = FMulInt(ResultOf(t).data, a * a)
                     /\ (ResultOf(t).data # FromInt(0) /\ a * a # a) =>
                            scaled.val # FMulInt(ResultOf(t).data, a)

\* a two-plane 2 x 2 image batch that is not constant gave a positive value,
\* and three times the image gives nine times the value
C10_Witness ==
    \E t \in Threads :
        /\ Finished(t, "TV_LOSS") /\ Returned(t)
        /\ ImgOf(t).shape = <<2, 1, 2, 2>> /\ frame[t].img_size = 2
        /\ ResultOf(t).data[1] > 0
        /\ TVRun(Scale(ImgOf(t), 3), 2).val = FMulInt(ResultOf(t).data, 9)

\* the pixel of T at position p = (b, c, r, w)
PixelAt(T, p) == T.data[p[1]][p[2]][p[3]][p[4]]

\* the value of the pixels of T other than the one at p, if they all agree
Background(T, p) == PixelAt(T, CHOOSE q \in PixelPositions(T.shape) : q # p)

\* T is constant except for the pixel at p, which differs from the background
SinglePixelOff(T, p) ==
    /\ PixelAt(T, p) # Background(T, p)
    /\ \A q \in PixelPositions(T.shape) \ {p} : PixelAt(T, q) = Background(T, p)

\* T with the pixel at p set to val
WithPixel(A, p, val) ==
    CHOOSE R \in
        { Build4(T.shape, LAMBDA b, c, r, w :
                    IF <<b, c, r, w>> = p THEN val ELSE T.data[b][c][r][w]) : T \in {A} } : TRUE

\* C11: for a batch of shape (B, C, S, S), S = img_size >= 2, that is constant
\* except for one pixel differing from the background by d # 0, at any
\* position, TV_LOSS returns a value > 0, and with 2d in place of d it returns
\* exactly 4 times that value.
C11_SinglePixelTimesFour ==
    \A t \in Threads :
        (Finished(t, "TV_LOSS") /\ SquareOfImgSize(t)) =>
            \A p \in PixelPositions(ImgOf(t).shape) :
                SinglePixelOff(ImgOf(t), p) =>
                    LET v == Background(ImgOf(t), p)
                        d == PixelAt(ImgOf(t), p) - v
                        doubled == TVRun(WithPixel(ImgOf(t), p, v + 2 * d), frame[t].img_size)
                    IN  /\ Returned(t)
                        /\ ResultOf(t).data[1] > 0 /\ ResultOf(t).data[2] > 0
                        /\ doubled.status = "returned"
                        /\ doubled.val = FMulInt(ResultOf(t).data, 4)

\* a 3 x 3 image of zeros with a 1 in the centre gave 2/3, and with a 2 in the
\* centre TV_LOSS gives 8/3
C11_Witness ==
    \E t \in Threads :
        /\ Finished(t, "TV_LOSS") /\ Returned(t)
        /\ ImgOf(t).shape = <<1, 1, 3, 3>> /\ frame[t].img_size = 3
        /\ SinglePixelOff(ImgOf(t), <<1, 1, 2, 2>>)
        /\ PixelAt(ImgOf(t), <<1, 1, 2, 2>>) = 1
        /\ ResultOf(t).data = <<2, 3>>
        /\ TVRun(WithPixel(ImgOf(t), <<1, 1, 2, 2>>, 2), 3).val = <<8, 3>>

\* the sum over r in 0..S-2 of (p[r+1][k] - p[r][k])^2 in plane (b, c)
RefVertical(T, b, c, k) ==
    SumInts(MkSeq(T.shape[3] - 1, LAMBDA r :
        (T.data[b][c][r + 1][k] - T.data[b][c][r][k]) * (T.data[b][c][r + 1][k] - T.data[b][c][r][k])))

\* the sum over c in 0..S-2 of (p[k][c+1] - p[k][c])^2 in plane (b, c)
RefHorizontal(T, b, c, k) ==
    SumInts(MkSeq(T.shape[4] - 1, LAMBDA w :
        (T.data[b][c][k][w + 1] - T.data[b][c][k][w]) * (T.data[b][c][k][w + 1] - T.data[b][c][k][w])))

\* the reference value for a batch of shape (B, C, S, S): both sums are
\* averaged over their S - 1 terms, added, and averaged over b, c and k
TVReference(T) ==
    Frac(SumInts(MkSeq(T.shape[1], LAMBDA b :
            SumInts(MkSeq(T.shape[2], LAMBDA c :
                SumInts(MkSeq(T.shape[3], LAMBDA k :
                    RefVertical(T, b, c, k) + RefHorizontal(T, b, c, k))))))),
         (T.shape[3] - 1) * T.shape[1] * T.shape[2] * T.shape[3])

\* thread t was given the 4 x 4 example grid
GivenExample(t) ==
    \E a \in ExampleTVArgs : ImgOf(t) = [shape |-> a.shape, data |-> a.data]
                             /\ frame[t].img_size = a.img_size

\* C12: for shape (B, C, S, S), S = img_size >= 2, TV_LOSS equals the
\* reference: the S-1 squared vertical differences averaged over the height
\* axis plus the S-1 squared horizontal differences averaged over the width
\* axis, averaged over batch, channel and the remaining index; for the 4 x 4
\* example grid the result is 25.
C12_EqualsReference ==
    \A t \in Threads :
        (Finished(t, "TV_LOSS") /\ SquareOfImgSize(t)) =>
            /\ Returned(t)
            /\ ResultOf(t).data = TVReference(ImgOf(t))
            /\ GivenExample(t) => ResultOf(t).data = FromInt(25)

\* the 4 x 4 example grid was given and 25 came back
C12_Witness ==
    \E t \in Threads :
        /\ Finished(t, "TV_LOSS") /\ Returned(t) /\ GivenExample(t)
        /\ ImgOf(t).data[1][1][4][2] = 10
        /\ ResultOf(t).data = FromInt(25)

\* the height or the width of the image batch differs from img_size
ShapeMismatch(t) ==
    ImgOf(t).shape[3] # frame[t].img_size \/ ImgOf(t).shape[4] # frame[t].img_size

\* C13: whenever the image tensor's height or width differs from the declared
\* img_size, TV_LOSS fails with an error and returns no scalar.
C13_MismatchRaises ==
    \A t \in Threads :
        (Finished(t, "TV_LOSS") /\ ShapeMismatch(t)) =>
            (~Returned(t) /\ RaisedErr(t, "RuntimeError"))

\* the step is one of thread t
Stepped(t) == pc'[t] # pc[t] \/ frame'[t] # frame[t]

\* the step leaves what belongs to thread t as it was: how its call ended
\* and every tensor it built or was returned
LeavesAlone(t) ==
    /\ outcome'[t] = outcome[t]
    /\ \A a \in DOMAIN heap : heap[a].by = t => (a \in DOMAIN heap' /\ heap'[a] = heap[a])

\* C14: when one_hot and/or TV_LOSS run concurrently on independent batches,
\* under every interleaving of their steps each call ends exactly as it ends
\* when run alone, and no step of one call writes state of another: a step
\* of another thread leaves a thread's tensors and outcome untouched.
C14_ConcurrentAsAlone ==
    [][\A t \in Threads :
          /\ (InCall(t) /\ pc'[t] = "done") => Observed(t)' = Alone(t)'
          /\ ~Stepped(t) => LeavesAlone(t)]_vars

\* thread 1's one_hot allocated its matrix between lines 29 and 30 of thread
\* 2's TV_LOSS, and both calls returned what they return alone
C14_Witness ==
    /\ pc[1] = "done" /\ pc[2] = "done"
    /\ frame[1].fn = "one_hot" /\ frame[2].fn = "TV_LOSS"
    /\ Returned(1) /\ Returned(2)
    /\ frame[2].x = 3 /\ frame[1].oneHot = 4 /\ frame[2].y = 5
    /\ ResultOf(1).data = <<(<<0 - 1, 1>>)>> /\ ResultOf(1).device = "cuda"
    /\ ResultOf(2).data # FromInt(0)
    /\ Observed(1) = Alone(1) /\ Observed(2) = Alone(2)

\* ------------------------------------------------ claims on the interfaces
\* load_models has finished: main is at line 157, the web interface has
\* been constructed
LoadFinished == app.prog \in {"cli", "web"} /\ app.pc \in {"cli_check", "web_ready"}

\* the directory holds checkpoints, and every one has its counterpart of the
\* other kind with the same epoch and extension
Paired(files) ==
    /\ files # {}
    /\ \A f \in files :
         /\ IsInt(f.stem)
         /\ \E g \in files : g.kind # f.kind /\ g.stem = f.stem /\ g.ext = f.ext

\* model was loaded from a file of the directory, of the given kind and epoch
LoadedFrom(a, model, kind, epoch) ==
    /\ model.state = "loaded"
    /\ model.from \in a.files
    /\ model.from.kind = kind
    /\ IntOf(model.from) = epoch

\* C15: when load_models has finished on a directory of paired files
\* encoder_epoch_<N>.* / decoder_epoch_<N>.* (nothing in the environment
\* having failed), the epoch selected is the largest <N> in the directory
\* and the encoder and the decoder were both loaded from that epoch's files.
C15_LatestPairLoaded ==
    (LoadFinished /\ app.args.dir_ok /\ Paired(app.files) /\ ~app.fault) =>
       /\ app.latest_epoch = SetMax({IntOf(f) : f \in app.files})
       /\ LoadedFrom(app, app.encoder, "encoder", app.latest_epoch)
       /\ LoadedFrom(app, app.decoder, "decoder", app.latest_epoch)

\* what the decoder was given in its forward pass, if it has been reached
DecoderFed == Len(app.fed) > 0

\* the 1 x NumAges row with 1 at 0-based column age and 0 elsewhere
OneAt(age) == <<[k \in 1..NumAges |-> IF k = age + 1 THEN 1 ELSE 0]>>

\* C16: whenever the decoder is fed in age_progress_image or age_progress
\* with target_age in 0..4 and gender in {0, 1}, the age vector is the single
\* row of five entries with 1 exactly at column target_age, and the gender
\* value is the 1 x 1 tensor 2*gender - 1 (-1 for 0, +1 for 1); both are
\* functions of target_age and gender alone, whatever current_age is.
C16_DecoderInputs ==
    (DecoderFed /\ app.args.target_age \in 0..4 /\ app.args.gender \in {0, 1}) =>
       \A n \in 1..Len(app.fed) :
          /\ Len(app.fed[n].age_vec) = 1
          /\ Len(app.fed[n].age_vec[1]) = 5
          /\ app.fed[n].age_vec = OneAt(app.args.target_age)
          /\ Len(app.fed[n].gender_vec) = 1 /\ Len(app.fed[n].gender_vec[1]) = 1
          /\ app.fed[n].gender_vec[1][1] = 2 * app.args.gender - 1
          /\ app.fed[n].gender_vec[1][1] = (IF app.args.gender = 0 THEN 0 - 1 ELSE 1)

\* the decoder of the web interface was fed for target age 3 and gender 0
\* while the current age was 1
C16_Witness ==
    /\ app.prog = "web" /\ DecoderFed
    /\ app.args.current_age = 1 /\ app.args.target_age = 3 /\ app.args.gender = 0
    /\ app.fed[1].age_vec = <<(<<0, 0, 0, 1, 0>>)>>
    /\ app.fed[1].gender_vec = <<(<<0 - 1>>)>>

\* an argument of the run is one that main must refuse
Refused(args) ==
    \/ ~args.input_ok
    \/ ~args.dir_ok
    \/ args.current_age \notin 0..4
    \/ args.target_age \notin 0..4
    \/ args.gender \notin 0..1

\* C17: in a run of the CLI main whose input path or model directory does
\* not exist, or whose current_age or target_age is outside 0..4, or whose
\* gender is outside 0..1, main is always either still validating or has
\* returned, and get_device, load_models and age_progress_image are never
\* called and no output image is written; and in every run the success
\* message has been printed only if age_progress_image returned an image.
C17_ValidationFirst ==
    app.prog = "cli" =>
       /\ Refused(app.args) =>
             /\ app.pc \in {"cli_validate", "exit"}
             /\ app.calls = {}
             /\ ~app.written
             /\ ~app.success
       /\ app.success =>
             /\ "age_progress_image" \in app.calls
             /\ app.result = "image"
             /\ app.written

\* main has returned on a run whose only fault is a gender of 2: nothing
\* was called
C17_Witness ==
    /\ app.prog = "cli" /\ app.pc = "exit"
    /\ app.args = [ExampleArgs EXCEPT !.gender = 2]
    /\ app.calls = {} /\ ~app.written /\ ~app.success

\* the positions of an interface inside load_models
LoadPcs ==
    {"cli_load", "cli_build", "cli_load_enc", "cli_load_dec", "cli_load_ret",
     "web_discover", "web_build_enc", "web_build_dec", "web_load_enc",
     "web_load_dec", "web_load_done"}

\* the positions from the forward pass on, where it has been reached
ForwardPcs == {"cli_forward", "cli_save", "web_forward", "web_return"}

\* load_models was called and has finished
AfterLoad ==
    /\ app.prog \in {"cli", "web"}
    /\ "load_models" \in app.calls
    /\ app.pc \notin LoadPcs

BothLoaded(encoder, decoder) == encoder.state = "loaded" /\ decoder.state = "loaded"

BothNone(encoder, decoder) == IsNone(encoder) /\ IsNone(decoder)

\* C18: once load_models has finished in the CLI or the web interface -
\* with no checkpoint files, with the decoder file of the selected epoch
\* missing, or after any exception part-way through - encoder and decoder
\* are both loaded or both None, and the forward pass of the encoder and
\* the decoder is reached, and was made, only with both loaded.
C18_AllOrNothing ==
    /\ AfterLoad =>
          \/ BothLoaded(app.encoder, app.decoder)
          \/ BothNone(app.encoder, app.decoder)
    /\ (app.prog \in {"cli", "web"} /\ app.pc \in ForwardPcs) =>
          BothLoaded(app.encoder, app.decoder)
    /\ app.prog \in {"cli", "web"} =>
          \A n \in 1..Len(app.fed) : BothLoaded(app.fed[n].encoder, app.fed[n].decoder)

\* the web interface has been constructed on a directory with the encoder
\* of epoch 2 and the decoder of epoch 1 only: the encoder was loaded, the
\* decoder file was missing, and both are None
C18_Witness ==
    /\ app.prog = "web" /\ app.pc = "web_ready"
    /\ app.files = {CheckpointPath("encoder", 2), CheckpointPath("decoder", 1)}
    /\ app.latest_epoch = 2 /\ ~app.fault
    /\ BothNone(app.encoder, app.decoder)

\* ------------------------------------------------ claims on the organizer
\* the old class has been distributed
OrgDone == org.pc = "done"

\* the number of images class c (1-based in ranges) was given
RangeSize(c) == org.ranges[c][2] - org.ranges[c][1]

\* the 22 ranges are contiguous, disjoint and cover 0..n-1 exactly
RangesPartition ==
    /\ Len(org.ranges) = 22
    /\ org.ranges[1][1] = 0
    /\ org.ranges[22][2] = org.n
    /\ \A c \in 1..22 : org.ranges[c][1] <= org.ranges[c][2]
    /\ \A c \in 1..21 : org.ranges[c + 1][1] = org.ranges[c][2]
    /\ \A i \in 0..(org.n - 1) :
         Cardinality({c \in 1..22 : org.ranges[c][1] <= i /\ i < org.ranges[c][2]}) = 1

\* any two new classes differ by at most 1, the first n mod 22 get one extra
RangesBalanced ==
    /\ \A c, d \in 1..22 : RangeSize(c) - RangeSize(d) <= 1
    /\ \A c \in 1..22 :
         RangeSize(c) = (org.n \div 22) + (IF c - 1 < org.n % 22 THEN 1 ELSE 0)

\* the attempts to copy image i, and those that succeeded
AttemptsOf(i) == {k \in 1..Len(org.attempts) : org.attempts[k].i = i}

CopiesOf(i) == {k \in AttemptsOf(i) : org.attempts[k].copied}

\* C19 as stated: when an old class with n image files has been
\* distributed, the 22 ranges partition 0..n-1, every image has been copied
\* to exactly one new class in 0..21, none skipped or copied twice, and the
\* class sizes differ by at most 1 with the first n mod 22 one larger.
C19_EveryImageCopiedOnce ==
    OrgDone =>
       /\ RangesPartition
       /\ RangesBalanced
       /\ \A i \in 0..(org.n - 1) :
            /\ Cardinality(CopiesOf(i)) = 1
            /\ \A k \in CopiesOf(i) : org.attempts[k].new_class \in 0..21

\* C19, amended: when an old class with n image files has been distributed,
\* the 22 ranges partition 0..n-1 and are balanced; the copy of every image
\* has been attempted exactly once, into the one new class whose range holds
\* its index, and the image is in that class unless that copy raised, in
\* which case it is in none; the files counted are the images copied.
C19_EveryImageAttemptedOnce ==
    /\ \A i \in 0..(org.n - 1) : Cardinality(AttemptsOf(i)) <= 1
    /\ OrgDone =>
         /\ RangesPartition
         /\ RangesBalanced
         /\ \A i \in 0..(org.n - 1) :
              /\ Cardinality(AttemptsOf(i)) = 1
              /\ \A k \in AttemptsOf(i) :
                   /\ org.attempts[k].new_class \in 0..21
                   /\ org.ranges[org.attempts[k].new_class + 1][1] <= i
                   /\ i < org.ranges[org.attempts[k].new_class + 1][2]
                   /\ org.attempts[k].copied <=> i \notin org.bad
         /\ \A k \in 1..Len(org.attempts) : org.attempts[k].i \in 0..(org.n - 1)
         /\ org.total_files = Cardinality((0..(org.n - 1)) \ org.bad)

\* 25 images have been distributed, three classes of two and nineteen of
\* one; the copy of image 3, in new class 1, raised
C19_Witness ==
    /\ OrgDone /\ org.n = 25 /\ org.bad = {3}
    /\ org.ranges[1] = <<0, 2>> /\ org.ranges[2] = <<2, 4>> /\ org.ranges[3] = <<4, 6>>
    /\ org.ranges[4] = <<6, 7>> /\ org.ranges[22] = <<24, 25>>
    /\ org.attempts[4] = [i |-> 3, new_class |-> 1, copied |-> FALSE]
    /\ org.total_files = 24

============================================================================
